---- MODULE Spec2Model ----
(***************************************************************************)
(* GafferVDB::VDBObject (src/src/GafferVDB/VDBObject.cpp).                 *)
(*                                                                         *)
(* A VDBObject holds m_grids, a vector of shared pointers to openvdb       *)
(* grids.  Grids live on a heap and are addressed by pointer, because the  *)
(* code compares, shares and deep-copies them by pointer.  The state is    *)
(* one VDBObject; the other object of copyFrom and isEqualTo is an         *)
(* argument: a second VDBObject built by insertGrid from the caller's      *)
(* grids, the object itself (isEqualTo), or an object of another type.     *)
(*                                                                         *)
(* Lengths are in half voxels (all coordinates are multiplied by two), so  *)
(* that the 0.5 padding of worldBound stays an integer.                    *)
(***************************************************************************)
EXTENDS Integers, Sequences, FiniteSets, TLC

\* ------------------------------------------------------------------ bounds
MaxLen == 3        \* longest m_grids explored
MaxCopies == 2     \* grids that deepCopyGrid may have alive at a time

\* ------------------------------------------------------------ the universe
Names == {"a", "b", "z"}
NullPtr == 0
\* the base-class (BlindDataHolder) state of an object, and its value in a
\* newly constructed object
BlindStates == {0, 1}
DefaultBlind == 0
\* type ids of the runTimeCast: a VDBObject, and some other VisibleRenderable
VDBObjectTypeId == "VDBObject"
OtherTypeId == "MeshPrimitive"

Vec3(x, y, z) == <<x, y, z>>

\* voxel contents of a grid: an id (standing for topology and buffers) with
\* the index-space bounding box of its active voxels
VoxelMin(v) == CASE v = 1 -> Vec3(0, 0, 0)
                 [] v = 2 -> Vec3(-1, 0, 0)
                 [] OTHER -> Vec3(0, 0, 0)
VoxelMax(v) == CASE v = 1 -> Vec3(4, 1, 1)
                 [] v = 2 -> Vec3(1, 3, 1)
                 [] OTHER -> Vec3(1, 1, 1)
VoxelCount(v) == CASE v = 1 -> 20 [] v = 2 -> 24 [] OTHER -> 8

\* metadata entries are (type name, value) pairs stored under a key
Meta(t, v) == [type |-> t, value |-> v]
StatsMeta(v) ==
    [k \in {"file_bbox_min", "file_bbox_max", "file_mem_bytes", "file_voxel_count"} |->
        CASE k = "file_bbox_min" -> Meta("vec3i", VoxelMin(v))
          [] k = "file_bbox_max" -> Meta("vec3i", VoxelMax(v))
          [] k = "file_mem_bytes" -> Meta("int64", 8 * VoxelCount(v))
          [] OTHER -> Meta("int64", VoxelCount(v))]

\* f overridden by g
Override(f, g) ==
    [k \in (DOMAIN f) \cup (DOMAIN g) |-> IF k \in DOMAIN g THEN g[k] ELSE f[k]]

Grid(n, v, x, m) == [name |-> n, voxels |-> v, xform |-> x, meta |-> m]

\* the grids the caller of the object owns and hands to insertGrid.  xform is
\* the voxel size of a linear transform.
CallerGrids ==
    <<Grid("a", 1, 1, Override(StatsMeta(1), [note |-> Meta("string", "x")])),
      Grid("a", 3, 1, Override(StatsMeta(3), [half |-> Meta("bool", TRUE),
                                               scale |-> Meta("float", 2)])),
      Grid("b", 2, 2, [creator |-> Meta("string", "y"),
                       origin |-> Meta("vec3i", Vec3(1, 2, 3)),
                       size |-> Meta("double", 3)])>>
CallerPtrs == 1..Len(CallerGrids)
Ptrs == 1..(Len(CallerGrids) + MaxCopies)
\* the heap before any deepCopyGrid
CallerHeap == [p \in CallerPtrs |-> CallerGrids[p]]

VARIABLES
    grids,   \* m_grids, a sequence of grid pointers
    blind,   \* the base-class state of the object
    heap,    \* heap[p]: the grid at pointer p, for every live grid
    last     \* the last call: operation, argument, outcome, result

vars == <<grids, blind, heap, last>>

Call(op, arg, status, res) ==
    [op |-> op, arg |-> arg, status |-> status, res |-> res]

\* ----------------------------------------------------------------- helpers
Min2(a, b) == IF a < b THEN a ELSE b
Max2(a, b) == IF a > b THEN a ELSE b

\* index of the first grid called name, 0 when there is none
FindIndex(seq, h, name) ==
    LET S == {i \in 1..Len(seq) : h[seq[i]].name = name}
    IN  IF S = {} THEN 0 ELSE CHOOSE i \in S : \A j \in S : i <= j

findGrid(seq, h, name) ==
    LET i == FindIndex(seq, h, name)
    IN  IF i = 0 THEN NullPtr ELSE seq[i]

\* removeGrid erasing every grid of that name, not only the first
removeGrid_all(seq, h, name) ==
    SelectSeq(seq, LAMBDA p : h[p].name # name)

removeGrid(seq, h, name) ==
    LET i == FindIndex(seq, h, name)
    IN  IF i = 0 THEN seq
        ELSE SubSeq(seq, 1, i - 1) \o SubSeq(seq, i + 1, Len(seq))

insertGrid(seq, h, p) == Append(removeGrid(seq, h, h[p].name), p)

\* shared_ptr ownership: a grid made by deepCopyGrid dies with its last
\* reference; the caller keeps its own grids alive
Referenced(g) == {g[i] : i \in 1..Len(g)}
Release(h, g) == [p \in (DOMAIN h) \cap (CallerPtrs \cup Referenced(g)) |-> h[p]]

\* -------------------------------------------------------------------- Init
Init ==
    /\ grids = <<>>
    /\ blind = DefaultBlind
    /\ heap = CallerHeap
    /\ last = Call("construct", 0, "ok", 0)

\* VDBObject::VDBObject(): the handle now names a newly constructed object
Construct ==
    /\ grids' = <<>>
    /\ blind' = DefaultBlind
    /\ heap' = Release(heap, grids')
    /\ last' = Call("construct", 0, "ok", 0)

\* p: a grid of the caller, or one that findGrid returned
InsertGrid(p) ==
    /\ p \in DOMAIN heap
    /\ Len(insertGrid(grids, heap, p)) <= MaxLen
    /\ grids' = insertGrid(grids, heap, p)
    /\ heap' = Release(heap, grids')
    /\ last' = Call("insertGrid", p, "ok", 0)
    /\ UNCHANGED blind

RemoveGrid(name) ==
    /\ grids' = removeGrid(grids, heap, name)
    /\ heap' = Release(heap, grids')
    /\ last' = Call("removeGrid", name, "ok", 0)
    /\ UNCHANGED blind

\* ------------------------------------------------------------------- bound
BoxHuge == 1000000
Box(mn, mx) == [min |-> mn, max |-> mx]
\* a default-constructed Imath::Box3f is empty: min above max on every axis
EmptyBox == Box(Vec3(BoxHuge, BoxHuge, BoxHuge), Vec3(-BoxHuge, -BoxHuge, -BoxHuge))

\* extendBy that moves only the minimum
extendBy_minOnly(b, c) ==
    Box([i \in 1..3 |-> Min2(b.min[i], c.min[i])], b.max)

\* Imath::Box::extendBy( box )
extendBy(b, c) ==
    Box([i \in 1..3 |-> Min2(b.min[i], c.min[i])],
        [i \in 1..3 |-> Max2(b.max[i], c.max[i])])

\* metaValue<Vec3i>( key ) succeeds on a vec3i entry and throws otherwise
HasVec3i(g, key) == key \in DOMAIN g.meta /\ g.meta[key].type = "vec3i"
HasBBox(g) == HasVec3i(g, "file_bbox_min") /\ HasVec3i(g, "file_bbox_max")

\* Transform::indexToWorld of a linear transform with voxel size x, applied
\* to one coordinate
indexToWorld(x, c) == x * c

\* worldBound<float>( grid ), padding 0.5, in half voxels
worldBound(g) ==
    LET mn == g.meta["file_bbox_min"].value
        mx == g.meta["file_bbox_max"].value
        lo == [i \in 1..3 |-> indexToWorld(g.xform, 2 * mn[i] - 1)]
        hi == [i \in 1..3 |-> indexToWorld(g.xform, 2 * mx[i] + 1)]
    IN  Box([i \in 1..3 |-> Min2(lo[i], hi[i])], [i \in 1..3 |-> Max2(lo[i], hi[i])])

RECURSIVE boundLoop(_, _, _, _)
boundLoop(seq, h, i, combined) ==
    IF i > Len(seq) THEN combined
    ELSE boundLoop(seq, h, i + 1, extendBy(combined, worldBound(h[seq[i]])))

\* VDBObject::bound(); defined when no grid makes worldBound throw
bound(seq, h) == boundLoop(seq, h, 1, EmptyBox)
boundThrows(seq, h) == \E i \in 1..Len(seq) : ~HasBBox(h[seq[i]])

Bound ==
    /\ last' = IF boundThrows(grids, heap)
               THEN Call("bound", 0, "LookupError", EmptyBox)
               ELSE Call("bound", 0, "ok", bound(grids, heap))
    /\ UNCHANGED <<grids, blind, heap>>

\* -------------------------------------------------------------------- hash
HashMod == 65521
HashMul == 31
\* MurmurHash::append: order-sensitive mixing of one more value
append(h, x) == (h * HashMul + x) % HashMod

\* what writeTopology, writeBuffers and writeTransform stream for a grid
topologyBytes(g) == VoxelCount(g.voxels)
bufferBytes(g) == g.voxels
transformBytes(g) == g.xform

\* the MurmurHashSink of one grid
sinkHash(g) == append(append(append(0, topologyBytes(g)), bufferBytes(g)), transformBytes(g))

\* VisibleRenderable::hash: the type and the base-class state
baseHash(h, b) == append(append(h, 7), b)

RECURSIVE hashLoop(_, _, _, _)
hashLoop(seq, hp, i, h) ==
    IF i > Len(seq) THEN h
    ELSE hashLoop(seq, hp, i + 1, append(h, sinkHash(hp[seq[i]])))

hash(seq, hp, b, h) == hashLoop(seq, hp, 1, baseHash(h, b))

\* hash( h ) into a new MurmurHash
Hash ==
    /\ last' = Call("hash", 0, "ok", hash(grids, heap, blind, 0))
    /\ UNCHANGED <<grids, blind, heap>>

\* ---------------------------------------------------------------- copyFrom
\* a copy that leaves the transform behind
deepCopyGrid_noTransform(g) == [name |-> g.name, voxels |-> g.voxels, xform |-> 1, meta |-> g.meta]

deepCopyGrid(g) == [name |-> g.name, voxels |-> g.voxels, xform |-> g.xform, meta |-> g.meta]

FreePtrs(h) == Ptrs \ DOMAIN h
NewPtr(h) == CHOOSE p \in FreePtrs(h) : \A q \in FreePtrs(h) : p <= q
Extend(h, p, g) == [q \in (DOMAIN h) \cup {p} |-> IF q = p THEN g ELSE h[q]]

\* the loop of copyFrom: push_back( grid->deepCopyGrid() ) for every grid of
\* the source; yields the new m_grids and the new heap
RECURSIVE copyLoop(_, _, _, _)
copyLoop(tseq, sseq, i, h) ==
    IF i > Len(sseq) THEN [seq |-> tseq, heap |-> h]
    ELSE LET p == NewPtr(h)
         IN  copyLoop(Append(tseq, p), sseq, i + 1, Extend(h, p, deepCopyGrid(h[sseq[i]])))

\* the other object of copyFrom and isEqualTo: another VDBObject holding
\* grids of the caller under unique names, this object itself, or a
\* VisibleRenderable of another type
RECURSIVE insertAll(_, _, _)
insertAll(seq, h, ps) ==
    IF ps = <<>> THEN seq ELSE insertAll(insertGrid(seq, h, Head(ps)), h, Tail(ps))
CallerSeqs == UNION {[1..n -> CallerPtrs] : n \in 0..Min2(Len(CallerGrids), MaxLen)}
SourceSeqs == {insertAll(<<>>, CallerHeap, ps) : ps \in CallerSeqs}
OtherVDB(b, seq) == [type |-> VDBObjectTypeId, self |-> FALSE, blind |-> b, grids |-> seq]
OtherKind(b) == [type |-> OtherTypeId, self |-> FALSE, blind |-> b, grids |-> <<>>]
This == [type |-> VDBObjectTypeId, self |-> TRUE, blind |-> blind, grids |-> grids]
Others ==
    {OtherVDB(b, seq) : b \in BlindStates, seq \in SourceSeqs}
        \cup {OtherKind(b) : b \in BlindStates}

\* how the other object of a call relates to this one
SameContent(seq, other, h) ==
    /\ Len(seq) = Len(other.grids)
    /\ \A i \in 1..Len(seq) :
        LET g == h[seq[i]]
            k == h[other.grids[i]]
        IN  g.name = k.name /\ g.voxels = k.voxels /\ g.xform = k.xform
Relation(other) ==
    [self |-> other.self, type |-> other.type, blind |-> other.blind,
     len |-> Len(other.grids),
     sameContent |-> SameContent(grids, other, heap),
     samePtrs |-> (grids = other.grids)]

\* VisibleRenderable::copyFrom: the base-class state of the source
baseCopyFrom(other) == other.blind

\* copyFrom pushing the grids of the source themselves, not copies
copyFrom_shallow(tseq, other, h) ==
    [seq |-> tseq \o other.grids, heap |-> h, blind |-> baseCopyFrom(other)]

\* copyFrom clearing m_grids before anything else
copyFrom_clear(tseq, other, h) ==
    LET b == baseCopyFrom(other)
    IN  IF other.type # VDBObjectTypeId THEN [seq |-> <<>>, heap |-> h, blind |-> b]
        ELSE LET r == copyLoop(<<>>, other.grids, 1, h)
             IN  [seq |-> r.seq, heap |-> r.heap, blind |-> b]

\* copyFrom( other ): the new m_grids, heap and base-class state
copyFrom(tseq, other, h) ==
    LET b == baseCopyFrom(other)
    IN  IF other.type # VDBObjectTypeId THEN [seq |-> tseq, heap |-> h, blind |-> b]
        ELSE LET r == copyLoop(tseq, other.grids, 1, h)
             IN  [seq |-> r.seq, heap |-> r.heap, blind |-> b]

\* copyFrom( other ) from another object (Object::copy() always copies into
\* another object than the source)
CopyFrom(other) ==
    /\ Len(grids) + Len(other.grids) <= MaxLen
    /\ Len(other.grids) <= Cardinality(FreePtrs(heap))
    /\ LET r == copyFrom(grids, other, heap)
       IN  /\ grids' = r.seq
           /\ heap' = r.heap
           /\ blind' = r.blind
    /\ last' = Call("copyFrom", other, "ok", 0)

\* --------------------------------------------------------------- isEqualTo
\* base-class equality: same type and equal base-class state
baseIsEqualTo(b, other) == other.type = VDBObjectTypeId /\ other.blind = b
baseIsNotEqualTo(b, other) == ~baseIsEqualTo(b, other)

isEqualTo(seq, b, other) ==
    IF ~baseIsNotEqualTo(b, other) THEN FALSE
    ELSE IF other.type # VDBObjectTypeId THEN FALSE
    ELSE seq = other.grids

IsEqualTo(other) ==
    /\ last' = Call("isEqualTo", Relation(other), "ok", isEqualTo(grids, blind, other))
    /\ UNCHANGED <<grids, blind, heap>>

\* ---------------------------------------------------------------- metadata
NoData == [data |-> "none", value |-> 0]
\* the type switch without its bool branch
convertMeta_noBool(e) ==
    CASE e.type = "string" -> [data |-> "StringData", value |-> e.value]
      [] e.type = "int64" -> [data |-> "Int64Data", value |-> e.value]
      [] e.type = "vec3i" -> [data |-> "V3iData",
                              value |-> Vec3(e.value[1], e.value[2], e.value[3])]
      [] OTHER -> NoData

\* the type switch of metadata(): one branch per supported type name
convertMeta(e) ==
    CASE e.type = "string" -> [data |-> "StringData", value |-> e.value]
      [] e.type = "int64" -> [data |-> "Int64Data", value |-> e.value]
      [] e.type = "bool" -> [data |-> "BoolData", value |-> e.value]
      [] e.type = "vec3i" -> [data |-> "V3iData",
                              value |-> Vec3(e.value[1], e.value[2], e.value[3])]
      [] OTHER -> NoData

\* GridBase::addStatsMetadata
addStatsMetadata(g) == [g EXCEPT !.meta = Override(g.meta, StatsMeta(g.voxels))]

\* the members of the CompoundObject built by the loop over the metadata
metadataMembers(m) ==
    LET keep == {k \in DOMAIN m : convertMeta(m[k]).data # "none"}
    IN  [k \in keep |-> convertMeta(m[k])]

Metadata(name) ==
    LET p == findGrid(grids, heap, name)
    IN  IF p = NullPtr
        THEN /\ last' = Call("metadata", name, "null", 0)
             /\ UNCHANGED <<grids, blind, heap>>
        ELSE /\ heap' = [heap EXCEPT ![p] = addStatsMetadata(heap[p])]
             /\ last' = Call("metadata", name, "ok", metadataMembers(heap'[p].meta))
             /\ UNCHANGED <<grids, blind>>

\* ------------------------------------------------------------ save and load
\* save is const: the base-class step writes into the context, then the
\* exception is thrown
Save ==
    /\ last' = Call("save", 0, "NotImplementedException", 0)
    /\ UNCHANGED <<grids, blind, heap>>

\* the base-class step reads the base-class state c from the context, then
\* the exception is thrown
Load(c) ==
    /\ blind' = c
    /\ last' = Call("load", c, "NotImplementedException", 0)
    /\ UNCHANGED <<grids, heap>>

\* the calls that change the object or a grid
Mutate ==
    \/ Construct
    \/ \E p \in Ptrs : InsertGrid(p)
    \/ \E n \in Names : RemoveGrid(n)
    \/ \E other \in Others : CopyFrom(other)
    \/ \E n \in Names : Metadata(n)
    \/ \E c \in BlindStates : Load(c)

Next ==
    \/ Mutate
    \/ \E other \in Others \cup {This} : IsEqualTo(other)
    \/ Bound
    \/ Hash
    \/ Save

Spec == Init /\ [][Next]_vars

\* The const calls leave the object and the grids alone, so the states of the
\* object under Spec are those under Mutate alone; each of the following
\* follows the mutating calls and one const call.
NextGrids == Mutate
SpecGrids == Init /\ [][NextGrids]_vars
NextEqual == Mutate \/ \E other \in Others \cup {This} : IsEqualTo(other)
SpecEqual == Init /\ [][NextEqual]_vars
NextHash == Mutate \/ Hash
SpecHash == Init /\ [][NextHash]_vars
NextBound == Mutate \/ Bound
SpecBound == Init /\ [][NextBound]_vars
NextSave == Mutate \/ Save
SpecSave == Init /\ [][NextSave]_vars

\* ================================================================= claims
Range(seq) == {seq[i] : i \in 1..Len(seq)}
Named(seq, h, name) == {i \in 1..Len(seq) : h[seq[i]].name = name}
NotImplemented == "NotImplementedException"

\* C1: in every state reachable by insertGrid, removeGrid and copyFrom, no
\* two grids of the object have the same name.
C1_NamesUnique ==
    \A i, j \in 1..Len(grids) :
        i # j => heap[grids[i]].name # heap[grids[j]].name

\* C2: insertGrid(g) with a grid of g's name already held replaces it: the
\* size is unchanged, findGrid(g.name) then returns g, and no other grid that
\* had that name is still held; with no grid of that name the size grows by
\* one.
C2_InsertReplaces ==
    [][last'.op = "insertGrid" =>
        LET p == last'.arg
            name == heap[p].name
            prior == Named(grids, heap, name)
        IN  IF prior # {}
            THEN /\ Len(grids') = Len(grids)
                 /\ findGrid(grids', heap', name) = p
                 /\ \A i \in prior : grids[i] # p => grids[i] \notin Range(grids')
            ELSE Len(grids') = Len(grids) + 1]_vars

\* C3: isEqualTo is reflexive, true for another VDBObject with equal base
\* state whose grids have the same names, contents and transforms in the same
\* order, and false when the counts or a grid differ.
C3_IsEqualTo ==
    last.op = "isEqualTo" =>
        /\ last.arg.self => last.res = TRUE
        /\ (last.arg.type = VDBObjectTypeId /\ last.arg.blind = blind
                /\ last.arg.sameContent) => last.res = TRUE
        /\ ~last.arg.sameContent => last.res = FALSE

\* C4: copyFrom from a VDBObject S into a newly constructed object T leaves
\* hash(T) = hash(S); hash changes nothing, so a second call hashes the same
\* object.
C4_CopyKeepsHash ==
    [][/\ (last'.op = "copyFrom" /\ last'.arg.type = VDBObjectTypeId
             /\ grids = <<>> /\ blind = DefaultBlind) =>
            hash(grids', heap', blind', 0)
                = hash(last'.arg.grids, heap', last'.arg.blind, 0)
       /\ last'.op = "hash" =>
            /\ UNCHANGED <<grids, blind, heap>>
            /\ last'.res = hash(grids, heap, blind, 0)]_vars
C4_Witness ==
    /\ last.op = "copyFrom" /\ last.arg.type = VDBObjectTypeId
    /\ Len(last.arg.grids) >= 2 /\ Len(grids) = Len(last.arg.grids)
    /\ last.arg.blind # DefaultBlind
    /\ \E i \in 1..Len(grids) : heap[grids[i]].xform # 1
    /\ hash(grids, heap, blind, 0) = hash(last.arg.grids, heap, last.arg.blind, 0)

\* the union of the padded world-space bounds of the grids, axis by axis
Least(S) == CHOOSE x \in S : \A y \in S : x <= y
Greatest(S) == CHOOSE x \in S : \A y \in S : x >= y
UnionBound(seq, h) ==
    IF seq = <<>> THEN EmptyBox
    ELSE Box([a \in 1..3 |-> Least({worldBound(h[seq[i]]).min[a] : i \in 1..Len(seq)})],
             [a \in 1..3 |-> Greatest({worldBound(h[seq[i]]).max[a] : i \in 1..Len(seq)})])
Inside(b, c) == \A a \in 1..3 : c.min[a] <= b.min[a] /\ b.max[a] <= c.max[a]
BoundIsUnion ==
    last'.op = "bound" =>
        IF boundThrows(grids', heap') THEN last'.status = "LookupError"
        ELSE last'.status = "ok" /\ last'.res = UnionBound(grids', heap')
InsertsInside(p) ==
    /\ last'.op = "insertGrid" /\ last'.arg = p
    /\ ~boundThrows(grids, heap) /\ HasBBox(heap[p])
    /\ Inside(worldBound(heap[p]), bound(grids, heap))

\* C5 as stated: bound() is the union of the grids' padded world-space
\* bounds (the empty box for no grids), and insertGrid of a grid whose bound
\* lies inside that union leaves bound() unchanged.
C5_Original ==
    [][/\ BoundIsUnion
       /\ \A p \in Ptrs : InsertsInside(p) => bound(grids', heap') = bound(grids, heap)]_vars

\* C5 amended: the same, for insertGrid of a grid whose name no grid of the
\* object has.
C5_BoundUnion ==
    [][/\ BoundIsUnion
       /\ \A p \in Ptrs :
            (InsertsInside(p) /\ Named(grids, heap, heap[p].name) = {}) =>
                bound(grids', heap') = bound(grids, heap)]_vars
C5_Witness ==
    /\ last.op = "insertGrid" /\ Len(grids) >= 2
    /\ grids[Len(grids)] = last.arg
    /\ Named(grids, heap, heap[last.arg].name) = {Len(grids)}
    /\ ~boundThrows(grids, heap)
    /\ Inside(worldBound(heap[last.arg]), bound(SubSeq(grids, 1, Len(grids) - 1), heap))
    /\ bound(grids, heap) = bound(SubSeq(grids, 1, Len(grids) - 1), heap)
    /\ bound(grids, heap) = UnionBound(grids, heap)

\* C6: save and load fail with NotImplementedException on every call and
\* leave the grid sequence and the base-class state of the object as they
\* were.
C6_SaveLoadNoEffect ==
    [][last'.op \in {"save", "load"} =>
        /\ last'.status = NotImplemented
        /\ UNCHANGED <<grids, blind, heap>>]_vars

\* C7: metadata(name) returns none when no grid has that name; otherwise its
\* keys are exactly the metadata entries of the first grid of that name
\* whose type is string, int64, bool or vec3i, each with the stored value.
SupportedTypes == {"string", "int64", "bool", "vec3i"}
DataOf(t) == CASE t = "string" -> "StringData" [] t = "int64" -> "Int64Data"
               [] t = "bool" -> "BoolData" [] OTHER -> "V3iData"
C7_Metadata ==
    last.op = "metadata" =>
        LET S == Named(grids, heap, last.arg)
        IN  IF S = {} THEN last.status = "null"
            ELSE LET m == heap[grids[Least(S)]].meta
                 IN  /\ last.status = "ok"
                     /\ DOMAIN last.res = {k \in DOMAIN m : m[k].type \in SupportedTypes}
                     /\ \A k \in DOMAIN last.res :
                            /\ last.res[k].value = m[k].value
                            /\ last.res[k].data = DataOf(m[k].type)
C7_Witness ==
    /\ last.op = "metadata" /\ last.status = "ok"
    /\ LET m == heap[findGrid(grids, heap, last.arg)].meta
       IN  /\ \E k \in DOMAIN m : k \notin DOMAIN last.res
           /\ \E k \in DOMAIN last.res : m[k].type = "bool"
           /\ \E k \in DOMAIN last.res : m[k].type = "vec3i"

\* C8: removeGrid(name) changes nothing when no grid has that name;
\* otherwise it removes the first grid of that name and keeps the others in
\* their order.
C8_RemoveGrid ==
    [][last'.op = "removeGrid" =>
        LET S == Named(grids, heap, last'.arg)
        IN  IF S = {} THEN grids' = grids
            ELSE LET i == Least(S)
                 IN  /\ Len(grids') = Len(grids) - 1
                     /\ \A k \in 1..Len(grids') :
                            grids'[k] = IF k < i THEN grids[k] ELSE grids[k + 1]]_vars
C8_Witness ==
    /\ last.op = "removeGrid"
    /\ Len(grids) >= 2
    /\ Named(grids, heap, last.arg) # {}
    /\ heap[grids[1]].name # last.arg

C10_CopyOtherKind ==
    [][(last'.op = "copyFrom" /\ last'.arg.type # VDBObjectTypeId) =>
        /\ last'.status = "ok"
        /\ grids' = grids /\ heap' = heap
        /\ blind' = last'.arg.blind]_vars
C10_Witness ==
    /\ last.op = "copyFrom" /\ last.arg.type # VDBObjectTypeId
    /\ Len(grids) >= 2
    /\ blind = last.arg.blind /\ blind # DefaultBlind
====
